---- MODULE Spec2Model ----
(***************************************************************************)
(* Model of the reinforcement-learning dialogue policy                     *)
(*   DialoguePolicy/ReinforcementLearning/pytorch_reinforce_policy.py      *)
(*   DialoguePolicy/ReinforcementLearning/rlutil/advantage_actor_critic.py *)
(*   DialoguePolicy/dialogue_common.py                                     *)
(*                                                                         *)
(* Python floats are modelled as exact rationals <<n, d>> (d > 0).  The    *)
(* neural network (the injected PolicyAgentModelClass) and the torch       *)
(* optimizer are a numeric backend: their outputs are nondeterministic     *)
(* choices from small sets, their parameters an opaque identifier.         *)
(***************************************************************************)
EXTENDS Integers, Sequences, FiniteSets, TLC

VARIABLES
  \* PyTorchReinforcePolicy
  epsilon, epsilon_min, epsilon_decay, is_training,
  agent, agent_mode, optimizer, losses, files, ret,
  eps0, trained,
  \* act codec calls
  codec_in, codec_out,
  \* state encoder calls
  st, st_hist,
  \* episodic returns
  batch_in, loss_out,
  \* rollout engine
  exp_mem, pc, steps_left, experience, iters,
  \* generalized advantage estimation
  gae_in, gae_out,
  \* flattening
  flat_in, flat_out

policy_vars == <<epsilon, epsilon_min, epsilon_decay, is_training,
                 agent, agent_mode, optimizer, losses, files, ret,
                 eps0, trained>>
codec_vars == <<codec_in, codec_out>>
stenc_vars == <<st, st_hist>>
returns_vars == <<batch_in, loss_out>>
rollout_vars == <<exp_mem, pc, steps_left, experience, iters>>
gae_vars == <<gae_in, gae_out>>
flat_vars == <<flat_in, flat_out>>
non_policy_vars == <<codec_vars, stenc_vars, returns_vars, rollout_vars,
                     gae_vars, flat_vars>>
non_codec_vars == <<policy_vars, stenc_vars, returns_vars, rollout_vars,
                    gae_vars, flat_vars>>
non_stenc_vars == <<policy_vars, codec_vars, returns_vars, rollout_vars,
                    gae_vars, flat_vars>>
non_returns_vars == <<policy_vars, codec_vars, stenc_vars, rollout_vars,
                      gae_vars, flat_vars>>
non_rollout_vars == <<policy_vars, codec_vars, stenc_vars, returns_vars,
                      gae_vars, flat_vars>>
non_gae_vars == <<policy_vars, codec_vars, stenc_vars, returns_vars,
                  rollout_vars, flat_vars>>
non_flat_vars == <<policy_vars, codec_vars, stenc_vars, returns_vars,
                   rollout_vars, gae_vars>>
vars == <<policy_vars, codec_vars, stenc_vars, returns_vars,
          rollout_vars, gae_vars, flat_vars>>

-----------------------------------------------------------------------------
(* Rational arithmetic standing for Python float arithmetic.               *)

Abs(x) == IF x < 0 THEN -x ELSE x

RECURSIVE Gcd(_, _)
Gcd(a, b) == IF b = 0 THEN a ELSE Gcd(b, a % b)

Rat(n, d) ==
  LET g == Gcd(Abs(n), d)
  IN  IF n = 0 THEN <<0, 1>> ELSE <<n \div g, d \div g>>

RInt(i) == <<i, 1>>
\* Sums over the least common denominator and products reduced crosswise
\* keep the intermediate integers small.
RAdd(a, b) ==
  LET g == Gcd(a[2], b[2])
  IN  Rat(a[1] * (b[2] \div g) + b[1] * (a[2] \div g), (a[2] \div g) * b[2])
RSub(a, b) == RAdd(a, <<-b[1], b[2]>>)
RMul(a, b) ==
  LET g1 == IF a[1] = 0 THEN 1 ELSE Gcd(Abs(a[1]), b[2])
      g2 == IF b[1] = 0 THEN 1 ELSE Gcd(Abs(b[1]), a[2])
  IN  Rat((a[1] \div g1) * (b[1] \div g2), (a[2] \div g2) * (b[2] \div g1))
RNeg(a) == <<-a[1], a[2]>>
RLess(a, b) == a[1] * b[2] < b[1] * a[2]
RMax(a, b) == IF RLess(a, b) THEN b ELSE a

RECURSIVE RPow(_, _)
RPow(a, n) == IF n = 0 THEN RInt(1) ELSE RMul(a, RPow(a, n - 1))

RECURSIVE SeqSum(_)
SeqSum(s) == IF s = <<>> THEN RInt(0) ELSE RAdd(Head(s), SeqSum(Tail(s)))

RECURSIVE Flatten(_)
Flatten(ss) == IF ss = <<>> THEN <<>> ELSE Head(ss) \o Flatten(Tail(ss))

Range(s) == {s[i] : i \in DOMAIN s}

\* The same value; a function given by a rule is tabulated once.
Tabulated(f) == f \o <<>>

-----------------------------------------------------------------------------
(* Domain schema and act codec.                                            *)

\* Domain(acts_params, dstc2_acts_sys, ..., system_requestable_slots,
\* requestable_slots): the instance the model runs with.
acts_params == <<"inform", "request">>
dstc2_acts_sys == <<"offer", "bye">>
system_requestable_slots == <<"area", "food">>
requestable_slots == <<"area", "food", "price">>

\* Lexicographic order of every label the model uses (numpy sorts the
\* fitted classes).
StrOrder == <<"area", "bye", "food", "inform", "offer", "price", "request">>

Sorted(S) == SelectSeq(StrOrder, LAMBDA x : x \in S)

IndexOf(seq, x) == CHOOSE i \in DOMAIN seq : seq[i] = x

\* ActionEncoder.__init__: LabelEncoder / MultiLabelBinarizer fitted on the
\* domain vocabulary; classes_ is the sorted set of labels.
intent_classes == Sorted(Range(acts_params) \cup Range(dstc2_acts_sys))
slot_classes == Sorted(Range(requestable_slots) \cup Range(system_requestable_slots))

\* The attributes an ActionEncoder instance has.
ActionEncoderAttrs == {"intent_enc", "slot_enc", "encode"}

\* ActionEncoder.encode: LabelEncoder.transform raises on an unseen label;
\* MultiLabelBinarizer.transform ignores unknown labels.
ActionEncoder_encode(intent, slots) ==
  IF intent \notin Range(intent_classes)
  THEN [status |-> "ValueError", intent |-> -1, slots |-> <<>>]
  ELSE [status |-> "ok",
        intent |-> IndexOf(intent_classes, intent) - 1,
        slots |-> [i \in DOMAIN slot_classes |->
                     IF slot_classes[i] \in Range(slots) THEN 1 ELSE 0]]

\* A DialogueAct: intent plus params; of each DialogueActItem only the slot
\* is read by the codec.
DialogueAct(intent, params) == [intent |-> intent, params |-> params]

AnyOffer(acts) == \E i \in DOMAIN acts : acts[i].intent = "offer"

\* Variant: the last act is kept instead of the first.
TruncateKeepLast(acts) ==
  IF AnyOffer(acts) THEN SubSeq(acts, Len(acts), Len(acts)) ELSE acts

\* if any([a.intent == "offer" for a in acts]): acts = acts[:1]
Truncate(acts) == IF AnyOffer(acts) THEN SubSeq(acts, 1, 1) ELSE acts

encode_action(acts) ==
  LET a == Truncate(acts)
  IN  IF Len(a) # 1
      THEN [status |-> "AssertionError", intent |-> -1, slots |-> <<>>]
      ELSE ActionEncoder_encode(a[1].intent, a[1].params)

\* decode_action starts with self.action_enc.inverse_transform(...): the
\* attribute lookup on the ActionEncoder instance decides the call.
decode_action(action_enc) ==
  IF "inverse_transform" \notin ActionEncoderAttrs
  THEN [status |-> "AttributeError", acts |-> <<>>]
  ELSE [status |-> "unmodelled", acts |-> <<>>]

-----------------------------------------------------------------------------
(* State encoder.  A string is modelled as the sequence of tokens the      *)
(* policy's regex tokenizer (?:\b\w\w+\b|\S) cuts it into: each word of    *)
(* two or more word characters, and each other non-blank character.        *)

dstc2_acts_usr == <<"bye", "hello">>

\* A deleted (absent) attribute of an object.
Deleted == -1

NoActs == [none |-> TRUE, acts |-> <<>>]
SomeActs(a) == [none |-> FALSE, acts |-> a]

\* Keys of the slots_filled dict, in dict order.
SlotKeys == <<"area", "food", "name">>

ExcludedFields == {"context", "system_requestable_slot_entropies", "db_result",
                   "dialogStateUuid", "user_goal", "slots", "item_in_focus"}

\* A SlotFillingDialogueState object: id is the object's identity,
\* db_matches_ratio is in hundredths.
StateObj(x, ratio, filled, sys_acts, usr_acts) ==
  [id |-> "state",
   context |-> x, system_requestable_slot_entropies |-> x, db_result |-> x,
   dialogStateUuid |-> x, user_goal |-> x, slots |-> x, item_in_focus |-> x,
   db_matches_ratio |-> ratio, slots_filled |-> filled,
   last_sys_acts |-> sys_acts, user_acts |-> usr_acts]

\* SlotFillingDialogueState([]): nothing filled, no acts, ratio 1.0.
EmptyState ==
  StateObj(0, 100, [k \in Range(SlotKeys) |-> "None"], NoActs, NoActs)

\* The hundredths h for which the double round(h/100, 2) * 100 lies below h.
FloatShortHundredths == {29, 57, 58}

\* int(round(ratio, 2) * 100)
DbPercent(h) == IF h \in FloatShortHundredths THEN h - 1 ELSE h

RECURSIVE JoinTok(_, _)
JoinTok(parts, sep) ==
  IF parts = <<>> THEN <<>>
  ELSE IF Len(parts) = 1 THEN parts[1]
  ELSE parts[1] \o sep \o JoinTok(Tail(parts), sep)

\* json.dumps of a str / list of str, as tokens.
JsonStr(x) == <<"\"", x, "\"">>
JsonStrList(xs) ==
  <<"[">> \o JoinTok([i \in DOMAIN xs |-> JsonStr(xs[i])], <<",">>) \o <<"]">>

\* extract_features_from_act + json.dumps: ["intent", ["slot", ...]]
ActFeatureTokens(act) ==
  <<"[">> \o JsonStr(act.intent) \o <<",">> \o JsonStrList(act.params) \o <<"]">>

\* action_to_string: sys_usr + ';'.join(strings)
action_to_string(acts, system) ==
  <<IF system THEN "sys" ELSE "usr">>
    \o JoinTok([i \in DOMAIN acts |-> ActFeatureTokens(acts[i])], <<";">>)

\* json.dumps of a str that itself holds quotes: each quote is escaped.
RECURSIVE EscapeQuotes(_)
EscapeQuotes(toks) ==
  IF toks = <<>> THEN <<>>
  ELSE (IF Head(toks) = "\"" THEN <<"\\", "\"">> ELSE <<Head(toks)>>)
       \o EscapeQuotes(Tail(toks))

JsonActs(a) == <<"\"">> \o EscapeQuotes(a) \o <<"\"">>

\* todict + json.dumps of a DialogueAct left unconverted: its attributes
\* by introspection (intent, and the slot of each item of params).
todict_act(act) ==
  <<"{">> \o JsonStr("intent") \o <<":">> \o JsonStr(act.intent) \o <<",">>
    \o JsonStr("params") \o <<":", "[">>
    \o JoinTok([i \in DOMAIN act.params |->
                  <<"{">> \o JsonStr("slot") \o <<":">>
                    \o JsonStr(act.params[i]) \o <<"}">>], <<",">>)
    \o <<"]", "}">>

\* Variant: no copy, the same object.
deepcopy_alias(obj) == obj

\* copy.deepcopy: a new object with equal fields.
deepcopy(obj) == [obj EXCEPT !.id = "temp"]

\* state_to_json.  s is the JSON text, arg the caller's object after the call.
state_to_json(state) ==
  LET temp == deepcopy(state)
      filled == SelectSeq(SlotKeys, LAMBDA k : temp.slots_filled[k] # "None")
      pct == DbPercent(temp.db_matches_ratio)
      conv == ~temp.last_sys_acts.none
      sysj == IF conv THEN JsonActs(action_to_string(temp.last_sys_acts.acts, TRUE))
              ELSE <<"null">>
      usrj == IF conv THEN JsonActs(action_to_string(temp.user_acts.acts, FALSE))
              ELSE IF temp.user_acts.none THEN <<"null">>
              ELSE <<"[">> \o JoinTok([i \in DOMAIN temp.user_acts.acts |->
                                         todict_act(temp.user_acts.acts[i])],
                                       <<",">>) \o <<"]">>
      after == [temp EXCEPT !.context = Deleted,
                  !.system_requestable_slot_entropies = Deleted,
                  !.db_result = Deleted, !.dialogStateUuid = Deleted,
                  !.user_goal = Deleted, !.slots = Deleted,
                  !.item_in_focus = Deleted]
      arg == IF temp.id = state.id THEN after ELSE state
  IN  IF \E f \in ExcludedFields : temp[f] = Deleted
      THEN [status |-> "AttributeError", s |-> <<>>, arg |-> state]
      ELSE IF conv /\ temp.user_acts.none
      THEN [status |-> "TypeError", s |-> <<>>, arg |-> arg]
      ELSE [status |-> "ok",
            s |-> <<"{">> \o JsonStr("slots_filled") \o <<":">> \o JsonStrList(filled)
                  \o <<",">> \o JsonStr("user_acts") \o <<":">> \o usrj
                  \o <<",">> \o JsonStr("db_matches_ratio") \o <<":", ToString(pct)>>
                  \o <<",">> \o JsonStr("last_sys_acts") \o <<":">> \o sysj
                  \o <<"}">>,
            arg |-> arg]

\* QPolicy.encode_state (super().encode_state): the canonical state string.
QPolicy_encode_state(state) == state_to_json(state)

Digits == {"0", "1", "2", "3", "4", "5", "6", "7", "8", "9"}

\* _build_text_field: every string of the domain's list fields, the digits,
\* and the tokens of the empty state's string except the quote.
vocab_tokens ==
  Range(acts_params) \cup Range(dstc2_acts_sys) \cup Range(dstc2_acts_usr)
    \cup Range(system_requestable_slots) \cup Range(requestable_slots)
    \cup Digits
    \cup (Range(QPolicy_encode_state(EmptyState).s) \ {"\""})

\* Vocab.itos: the specials, then the tokens by frequency and alphabet.
itos == <<"<unk>", "<pad>", ":", ",", "area", "bye", "food", "null", "0", "1",
          "100", "2", "3", "4", "5", "6", "7", "8", "9", "[", "]",
          "db_matches_ratio", "hello", "inform", "last_sys_acts", "offer",
          "price", "request", "slots_filled", "user_acts", "{", "}">>

UnkId == 0

stoi(t) == IndexOf(itos, t) - 1

\* t in self.text_field.vocab.stoi
InVocab(t) == t \in Range(itos)

\* PyTorchReinforcePolicy.encode_state: tokens outside the vocabulary are
\* left out, the rest numericalized.
\* [t for t in tokens if t in stoi], then numericalize
KnownTokenIds(toks) ==
  LET known == SelectSeq(toks, InVocab)
  IN  Tabulated([i \in DOMAIN known |-> stoi(known[i])])

\* The tokens of the state string j that the vocabulary knows, as indices.
Numericalize(j) == [status |-> j.status, ids |-> KnownTokenIds(j.s), arg |-> j.arg]

encode_state(state) == Numericalize(QPolicy_encode_state(state))

-----------------------------------------------------------------------------
(* Bounds of the model.                                                    *)

MaxActs == 2
MaxEncodes == 2

RECURSIVE SeqsUpTo(_, _)
SeqsUpTo(S, n) ==
  IF n = 0 THEN {<<>>}
  ELSE LET shorter == SeqsUpTo(S, n - 1)
       IN  shorter \cup {Append(q, x) : q \in shorter, x \in S}

\* Slot lists an act may carry, and the acts of the domain vocabulary.
SlotLists == {<<>>, <<"area">>, <<"food", "price">>, <<"price", "area">>}
ValidActs == {DialogueAct(i, q) : i \in Range(intent_classes), q \in SlotLists}
ActLists == SeqsUpTo(ValidActs, MaxActs)

-----------------------------------------------------------------------------
(* Calls of the act codec.                                                 *)

NoEnc == [status |-> "none", intent |-> -1, slots |-> <<>>]
NoDec == [status |-> "none", acts |-> <<>>]

CodecInit ==
  /\ codec_in \in ActLists
  /\ codec_out = [enc |-> NoEnc, dec |-> NoDec]

\* encode_action(codec_in)
CallEncodeAction ==
  /\ codec_out.enc.status = "none"
  /\ codec_out' = [codec_out EXCEPT !.enc = encode_action(codec_in)]
  /\ UNCHANGED codec_in
  /\ UNCHANGED non_codec_vars

\* decode_action on the encoding that encode_action returned
CallDecodeAction ==
  /\ codec_out.enc.status = "ok"
  /\ codec_out.dec.status = "none"
  /\ codec_out' = [codec_out EXCEPT
                     !.dec = decode_action(<<codec_out.enc.intent,
                                             codec_out.enc.slots>>)]
  /\ UNCHANGED codec_in
  /\ UNCHANGED non_codec_vars

-----------------------------------------------------------------------------
(* Calls of the state encoder.                                             *)

SampleRatios == {0, 5, 29, 100}
SampleActs == {NoActs,
               SomeActs(<<DialogueAct("inform", <<"area">>)>>),
               SomeActs(<<DialogueAct("offer", <<>>),
                          DialogueAct("inform", <<"food", "price">>)>>)}
SampleStates ==
  {StateObj(x, r, f, sa, ua) :
     x \in {0, 1}, r \in SampleRatios,
     f \in [Range(SlotKeys) -> {"None", "v"}],
     sa \in SampleActs, ua \in SampleActs}

StencInit ==
  /\ st \in SampleStates
  /\ st_hist = <<>>

\* encode_state(st), on the policy's caller-held state object
CallEncodeState ==
  /\ Len(st_hist) < MaxEncodes
  /\ LET r == encode_state(st)
     IN  /\ st_hist' = Append(st_hist, [status |-> r.status, ids |-> r.ids,
                                        before |-> st, after |-> r.arg])
         /\ st' = r.arg
  /\ UNCHANGED non_stenc_vars

-----------------------------------------------------------------------------
(* Episodic returns and losses.                                            *)

\* __init__ fixes the discount: gamma = 0.99
gamma == <<99, 100>>

\* The body of _calc_returns' loop, for i = Len(exp) down to 1:
\* R = r + gamma * R; returns.insert(0, R)
RECURSIVE CalcReturnsLoop(_, _, _, _, _)
CalcReturnsLoop(exp, g, i, R, returns) ==
  IF i = 0 THEN returns
  ELSE LET R2 == RAdd(RInt(exp[i][2]), RMul(g, R))
       IN  CalcReturnsLoop(exp, g, i - 1, R2, <<R2>> \o returns)

\* Variant: each return is appended, so the list is in reverse turn order.
calc_returns_appended(exp, g) ==
  LET r == CalcReturnsLoop(exp, g, Len(exp), RInt(0), <<>>)
  IN  [t \in DOMAIN r |-> r[Len(r) + 1 - t]]

_calc_returns(exp, g) == CalcReturnsLoop(exp, g, Len(exp), RInt(0), <<>>)

\* A turn of a dialogue record.
Turn(state, action, reward) == [state |-> state, action |-> action, reward |-> reward]

\* x = self.encode_state(turn['state']);
\* action_encs = self.encode_action(turn['action']), for every turn
EncodeTurns(dialogue) ==
  Tabulated([t \in DOMAIN dialogue |->
               [x |-> encode_state(dialogue[t].state),
                a |-> encode_action(dialogue[t].action)]])

\* The rest of _calc_dialogue_losses, given the turns' encodings: the first
\* turn that cannot be encoded ends the call with its exception.
DialogueLosses(dialogue, lps, encs) ==
  LET bad == {t \in DOMAIN dialogue :
                encs[t].x.status # "ok" \/ encs[t].a.status # "ok"}
      first == CHOOSE t \in bad : \A u \in bad : t <= u
      exp == Tabulated([t \in DOMAIN dialogue |-> <<RInt(lps[t]), dialogue[t].reward>>])
      returns == _calc_returns(exp, gamma)
  IN  IF bad # {}
      THEN [status |-> IF encs[first].x.status # "ok" THEN encs[first].x.status
                       ELSE encs[first].a.status,
            lps |-> <<>>, returns |-> <<>>, losses |-> <<>>]
      ELSE [status |-> "ok",
            lps |-> [t \in DOMAIN dialogue |-> lps[t]],
            returns |-> returns,
            losses |-> [t \in DOMAIN exp |-> RMul(RNeg(exp[t][1]), returns[t])]]

\* _calc_dialogue_losses.  lps[t] is the network's log-probability of turn
\* t's encoded action on turn t's encoded state (agent.log_probs).
_calc_dialogue_losses(dialogue, lps) ==
  DialogueLosses(dialogue, lps, EncodeTurns(dialogue))

MaxTurns == 3

Rewards == {-1, 2}
LogProbs == {-1, -2}

OneAct == <<DialogueAct("inform", <<"area">>)>>
TwoActs == <<DialogueAct("inform", <<"area">>), DialogueAct("request", <<"food">>)>>

Dialogues ==
  {[t \in DOMAIN rs |-> Turn(EmptyState, OneAct, rs[t])] :
     rs \in (SeqsUpTo(Rewards, MaxTurns) \ {<<>>})}
Batches == {<<d>> : d \in Dialogues} \cup {<<d, e>> : d, e \in Dialogues}

ReturnsInit ==
  /\ batch_in \in Batches
  /\ loss_out = <<>>

\* [self._calc_dialogue_losses(d) for d in batch]
CalcBatchLosses ==
  /\ loss_out = <<>>
  /\ \E lps \in [1..MaxTurns -> LogProbs] :
       loss_out' = [d \in DOMAIN batch_in |->
                      _calc_dialogue_losses(batch_in[d], lps)]
  /\ UNCHANGED batch_in
  /\ UNCHANGED non_returns_vars

-----------------------------------------------------------------------------
(* PyTorchReinforcePolicy: train, next_action, save, load.                 *)

MaxTrain == 3

Eps0Set == {<<19, 20>>, <<1, 2>>}
EpsMinSet == {<<1, 20>>, <<1, 4>>}
EpsDecaySet == {<<9, 10>>, <<1, 2>>}

\* random.random() is in [0, 1)
Draws == {<<0, 1>>, <<99, 100>>}
NoDraw == <<-1, 1>>

Paths == {"ckpt"}
NoFile == -1

PolicyStates ==
  {EmptyState,
   StateObj(1, 29, [k \in Range(SlotKeys) |-> IF k = "food" THEN "None" ELSE "v"],
            SomeActs(OneAct), SomeActs(OneAct))}

\* What the warmup policy may answer, and what the network's step may draw.
WarmupActs == {OneAct, <<DialogueAct("bye", <<>>)>>}
NetActions == {<<0, <<0, 0, 0>>>>, <<1, <<1, 0, 1>>>>}

TrainBatches ==
  {<<>>,
   << <<Turn(EmptyState, OneAct, 0), Turn(EmptyState, OneAct, -1)>>,
      <<Turn(EmptyState, OneAct, 2)>> >>,
   << <<Turn(EmptyState, OneAct, 2), Turn(EmptyState, TwoActs, 0)>> >>}

NoRet == [op |-> "none", status |-> "none", branch |-> "none", acts |-> <<>>,
          state |-> EmptyState, step_in |-> <<>>, action |-> <<>>,
          draw |-> NoDraw, existed |-> FALSE, before |-> 0]

PolicyInit ==
  /\ epsilon \in Eps0Set
  /\ epsilon_min \in EpsMinSet
  /\ epsilon_decay \in EpsDecaySet
  /\ is_training \in BOOLEAN
  /\ agent = 0
  /\ agent_mode = "train"
  /\ optimizer = 0
  /\ losses = <<>>
  /\ files = [p \in Paths |-> NoFile]
  /\ ret = NoRet
  /\ eps0 = epsilon
  /\ trained = 0

\* if self.epsilon > self.epsilon_min: self.epsilon *= self.epsilon_decay
DecayEpsilon(eps, eps_min, decay) ==
  IF RLess(eps_min, eps) THEN RMul(eps, decay) ELSE eps

\* train's loss: the mean over all turns of all dialogues of the batch, or
\* the exception of the first turn that cannot be encoded; torch.cat of
\* an empty list raises.
MeanLoss(per) ==
  LET bad == {d \in DOMAIN per : per[d].status # "ok"}
      first == CHOOSE d \in bad : \A e \in bad : d <= e
      all == Flatten([d \in DOMAIN per |-> per[d].losses])
  IN  IF bad # {} THEN [status |-> per[first].status, policy_loss |-> RInt(0)]
      ELSE IF all = <<>> THEN [status |-> "RuntimeError", policy_loss |-> RInt(0)]
      ELSE [status |-> "ok", policy_loss |-> RMul(SeqSum(all), <<1, Len(all)>>)]

\* losses = [self._calc_dialogue_losses(d) for d in batch]; the mean
BatchLoss(batch, lps) ==
  MeanLoss(Tabulated([d \in DOMAIN batch |-> _calc_dialogue_losses(batch[d], lps)]))

train ==
  /\ trained < MaxTrain
  /\ \E batch \in TrainBatches, lp \in LogProbs :
       \E out \in {BatchLoss(batch, [t \in 1..MaxTurns |-> lp])} :
           /\ agent_mode' = "train"
           /\ IF out.status # "ok"
              THEN /\ ret' = [NoRet EXCEPT !.op = "train", !.status = out.status]
                   /\ UNCHANGED <<epsilon, agent, optimizer, losses, trained>>
              ELSE /\ optimizer' = optimizer + 1
                   /\ agent' = optimizer + 1
                   /\ losses' = Append(losses, out.policy_loss)
                   /\ epsilon' = DecayEpsilon(epsilon, epsilon_min, epsilon_decay)
                   /\ trained' = trained + 1
                   /\ ret' = [NoRet EXCEPT !.op = "train", !.status = "ok"]
  /\ UNCHANGED <<epsilon_min, epsilon_decay, is_training, files, eps0>>
  /\ UNCHANGED non_policy_vars

\* create_random_dialog_act(domain, is_system=True): one inform act on a
\* requestable slot or one request act on a system-requestable slot.
create_random_dialog_act ==
  {<<DialogueAct("inform", <<sl>>)>> : sl \in Range(requestable_slots)}
    \cup {<<DialogueAct("request", <<sl>>)>> : sl \in Range(system_requestable_slots)}

\* self.is_training and random.random() < self.epsilon
Explore(training, draw, eps) == training /\ RLess(draw, eps)

\* Variant: the inner draw is compared with 0.5.
UseWarmupHalf(draw2) == RLess(draw2, <<1, 2>>)

\* random.random() < 1.0
UseWarmup(draw2) == RLess(draw2, RInt(1))

\* The network branch of next_action: the encoded state goes through the
\* agent's step, and the action it draws through decode_action.
network(base, x, d) ==
  IF x.status # "ok"
  THEN ret' = [base EXCEPT !.status = x.status, !.branch = "network", !.draw = d]
  ELSE \E action \in NetActions : \E dec \in {decode_action(action)} :
         ret' = [base EXCEPT !.status = dec.status, !.branch = "network",
                   !.acts = dec.acts, !.step_in = x.ids, !.action = action,
                   !.draw = d]

next_action ==
  /\ \E state \in PolicyStates :
       LET base == [NoRet EXCEPT !.op = "next_action", !.state = state]
       IN  IF ~is_training
           THEN network(base, encode_state(state), NoDraw)
           ELSE \E d1 \in Draws :
                  IF Explore(is_training, d1, epsilon)
                  THEN \E d2 \in Draws :
                         IF UseWarmup(d2)
                         THEN \E w \in WarmupActs :
                                ret' = [base EXCEPT !.status = "ok",
                                          !.branch = "warmup", !.acts = w,
                                          !.draw = d1]
                         ELSE \E rnd \in create_random_dialog_act :
                                ret' = [base EXCEPT !.status = "ok",
                                          !.branch = "random", !.acts = rnd,
                                          !.draw = d1]
                  ELSE network(base, encode_state(state), d1)
  /\ agent_mode' = "eval"
  /\ UNCHANGED <<epsilon, epsilon_min, epsilon_decay, is_training, agent,
                 optimizer, losses, files, eps0, trained>>
  /\ UNCHANGED non_policy_vars

\* torch.save(self.agent.state_dict(), path)
save ==
  /\ \E path \in Paths :
       /\ files' = [files EXCEPT ![path] = agent]
       /\ ret' = [NoRet EXCEPT !.op = "save", !.status = "ok", !.before = agent]
  /\ UNCHANGED <<epsilon, epsilon_min, epsilon_decay, is_training, agent,
                 agent_mode, optimizer, losses, eps0, trained>>
  /\ UNCHANGED non_policy_vars

\* PolicyAgent.__init__(self, vocab_size, num_intents, num_slots, ...): the
\* positional arguments without a default.
PolicyAgentRequiredArgs == 3

\* load builds self.PolicyAgentModelClass(self.vocab_size, self.NActions)
LoadCtorArgs == 2

load ==
  /\ \E path \in Paths \cup {"missing"} :
       LET isfile == path \in Paths /\ files[path] # NoFile
       IN  IF ~isfile
           THEN /\ ret' = [NoRet EXCEPT !.op = "load", !.status = "ok",
                             !.existed = FALSE, !.before = agent]
                /\ agent' = agent
           ELSE IF LoadCtorArgs < PolicyAgentRequiredArgs
           THEN /\ ret' = [NoRet EXCEPT !.op = "load", !.status = "TypeError",
                             !.existed = TRUE, !.before = agent]
                /\ agent' = agent
           ELSE /\ ret' = [NoRet EXCEPT !.op = "load", !.status = "ok",
                             !.existed = TRUE, !.before = agent]
                /\ agent' = files[path]
  /\ UNCHANGED <<epsilon, epsilon_min, epsilon_decay, is_training,
                 agent_mode, optimizer, losses, files, eps0, trained>>
  /\ UNCHANGED non_policy_vars

-----------------------------------------------------------------------------
(* Generalized advantage estimation.  Tensors of shape (time, envs) are    *)
(* sequences over time of sequences over the parallel environments.        *)

\* The parallel environments of the instance (rewards.shape[1] is 1).
Envs == {1}

\* A2CParams defaults
discount == <<99, 100>>
gae_lambda == <<19, 20>>

VAdd(a, b) == [e \in DOMAIN a |-> RAdd(a[e], b[e])]
VSub(a, b) == [e \in DOMAIN a |-> RSub(a[e], b[e])]
VMul(a, b) == [e \in DOMAIN a |-> RMul(a[e], b[e])]
VScale(c, a) == [e \in DOMAIN a |-> RMul(c, a[e])]
VInt(a) == [e \in DOMAIN a |-> RInt(a[e])]
VZeros(n) == [e \in 1..n |-> RInt(0)]

\* Variant: the mask is taken from dones[i].
MaskCurrent(dones, i) == [e \in DOMAIN dones[i + 1] |-> RInt(1 - dones[i + 1][e])]

\* mask = 1 - dones[i + 1]
Mask(dones, i) == [e \in DOMAIN dones[i + 2] |-> RInt(1 - dones[i + 2][e])]

\* bellman_delta = rewards[i + 1] + discount * values[i + 1] * mask - values[i]
BellmanDelta(rewards, values, dones, i, disc) ==
  VSub(VAdd(VInt(rewards[i + 2]),
            VMul(VScale(disc, VInt(values[i + 2])), Mask(dones, i))),
       VInt(values[i + 1]))

\* The loop body for i = n - 1 down to 0 (Python index i is position i + 1).
RECURSIVE GaeLoop(_, _, _, _, _, _, _, _)
GaeLoop(rewards, values, dones, disc, lam, i, next_advantage, buf) ==
  IF i < 0 THEN buf
  ELSE LET adv == VAdd(BellmanDelta(rewards, values, dones, i, disc),
                       VMul(VScale(RMul(disc, lam), next_advantage),
                            Mask(dones, i)))
       IN  GaeLoop(rewards, values, dones, disc, lam, i - 1, adv,
                   [buf EXCEPT ![i + 1] = adv])

generalized_advantage_estimation(rewards, values, dones, num_rollout_steps, disc, lam) ==
  IF Len(values) # 1 + num_rollout_steps
  THEN [status |-> "AssertionError", adv |-> <<>>]
  ELSE [status |-> "ok",
        adv |-> GaeLoop(rewards, values, dones, disc, lam,
                        num_rollout_steps - 1, VZeros(Len(rewards[1])),
                        [t \in 1..(Len(rewards) - 1) |-> VZeros(Len(rewards[1]))])]

MaxH == 2
Bits == {0, 1}

TensorsOf(len) == [1..len -> [Envs -> Bits]]

GaeInit ==
  /\ \E h \in 1..MaxH, vlen \in 1..(MaxH + 2) :
       /\ vlen \in {h, h + 1, h + 2}
       /\ gae_in \in [rewards : TensorsOf(h + 1), values : TensorsOf(vlen),
                      dones : TensorsOf(h + 1), num_rollout_steps : {h}]
  /\ gae_out = [status |-> "none", adv |-> <<>>]

CallGae ==
  /\ gae_out.status = "none"
  /\ gae_out' = generalized_advantage_estimation(
                  gae_in.rewards, gae_in.values, gae_in.dones,
                  gae_in.num_rollout_steps, discount, gae_lambda)
  /\ UNCHANGED gae_in
  /\ UNCHANGED non_gae_vars

-----------------------------------------------------------------------------
(* Flattening of parallel rollouts.                                        *)

\* v.transpose(0, 1)
Transpose(v) == [e \in DOMAIN v[1] |-> [t \in DOMAIN v |-> v[t][e]]]

\* reshape(shape[0] * shape[1], ...): row-major
Reshape(m) == Flatten(m)

\* Variant: reshape without the transpose.
flatten_array_rowmajor(v) == Reshape(v)

flatten_array(v) == Reshape(Transpose(v))

\* A dict is a record with a leaf flag: a leaf holds an array, an inner
\* node a function from keys to dicts.
Leaf(v) == [leaf |-> TRUE, v |-> v]
Node(kids) == [leaf |-> FALSE, v |-> kids]

RECURSIVE flatten_parallel_rollout(_)
flatten_parallel_rollout(d) ==
  [k \in DOMAIN d |->
     IF d[k].leaf THEN Leaf(flatten_array(d[k].v))
     ELSE Node(flatten_parallel_rollout(d[k].v))]

MaxT == 2
MaxE == 2
Cells == {0, 1, 2}

\* A second tensor of the same shape whose cell (t, e) holds <<t, e>>.
CellTags(a) == [t \in DOMAIN a |-> [e \in DOMAIN a[t] |-> <<t, e>>]]

FlatInit ==
  /\ \E T \in 1..MaxT, E \in 1..MaxE :
       \E a \in [1..T -> [1..E -> Cells]] :
         flat_in = [env_steps |-> Node([reward |-> Leaf(a)]),
                    advantages |-> Leaf(CellTags(a))]
  /\ flat_out = <<>>

CallFlatten ==
  /\ flat_out = <<>>
  /\ flat_out' = flatten_parallel_rollout(flat_in)
  /\ UNCHANGED flat_in
  /\ UNCHANGED non_flat_vars

-----------------------------------------------------------------------------
(* Rollout engine.  The experience memory is a ring of capacity            *)
(* num_rollout_steps + 1; Python index i is position i + 1.                *)

\* A2CParams.num_rollout_steps of the instance
num_rollout_steps == MaxH

Capacity == num_rollout_steps + 1

\* ExperienceMemory.store_single: write at current_idx, advance the ring.
store_single(mem, datum) ==
  [mem EXCEPT !.buffer[mem.current_idx + 1] = datum,
              !.last_written_idx = mem.current_idx,
              !.current_idx = (mem.current_idx + 1) % Capacity]

\* ExperienceMemory.last_becomes_first: the last entry is copied to slot 0
\* and writing goes on at slot 1.
last_becomes_first(mem) ==
  store_single(mem, mem.buffer[Capacity])

\* What the environment and the agent may answer, per environment.
EnvOutcomes == {[reward |-> 0, done |-> 0], [reward |-> 1, done |-> 1]}
AgentOutcomes == {[actions |-> 0, v_values |-> 0], [actions |-> 1, v_values |-> 1]}

\* The first datum: env.reset() and the agent's step on it.
InitialDatum ==
  [env |-> [observation |-> [e \in Envs |-> -1],
            reward |-> [e \in Envs |-> 0],
            done |-> [e \in Envs |-> 0]],
   agent |-> [actions |-> [e \in Envs |-> 0],
              v_values |-> [e \in Envs |-> 0]],
   agent_saw |-> [e \in Envs |-> -1]]

NoExperience == [status |-> "none", start_idx |-> -1, carried |-> InitialDatum,
                 env_steps |-> <<>>, agent_steps |-> <<>>,
                 advantages |-> <<>>, returnn |-> <<>>]

RolloutInit ==
  /\ exp_mem = store_single([buffer |-> [i \in 1..Capacity |-> InitialDatum],
                             current_idx |-> 0, last_written_idx |-> 0],
                            InitialDatum)
  /\ pc = "idle"
  /\ steps_left = 0
  /\ experience = NoExperience
  /\ iters = 0

MaxIters == 3

\* Variant: the entry at the write index is read.
EnvInputCurrent(mem) == mem.buffer[mem.current_idx + 1].agent

\* AgentStep(**exp_mem[exp_mem.last_written_idx].agent)
EnvInput(mem) == mem.buffer[mem.last_written_idx + 1].agent

\* One pass of gather_exp_via_rollout's loop.  The observation an
\* environment answers with is the action it was given; agent_saw records
\* the observation handed to agent.step.
RolloutStep ==
  /\ pc \in {"gather", "collect"}
  /\ steps_left > 0
  /\ \E eo \in [Envs -> EnvOutcomes], ao \in [Envs -> AgentOutcomes] :
       LET given == EnvInput(exp_mem)
           env_step == [observation |-> given.actions,
                        reward |-> [e \in Envs |-> eo[e].reward],
                        done |-> [e \in Envs |-> eo[e].done]]
           agent_step == [actions |-> [e \in Envs |-> ao[e].actions],
                          v_values |-> [e \in Envs |-> ao[e].v_values]]
       IN  exp_mem' = store_single(exp_mem, [env |-> env_step, agent |-> agent_step,
                                             agent_saw |-> env_step.observation])
  /\ steps_left' = steps_left - 1
  /\ UNCHANGED <<pc, experience, iters>>
  /\ UNCHANGED non_rollout_vars

\* gather_exp_via_rollout called by the training run to fill the memory
GatherStart ==
  /\ pc = "idle"
  /\ iters < MaxIters
  /\ pc' = "gather"
  /\ steps_left' = num_rollout_steps
  /\ iters' = iters + 1
  /\ experience' = NoExperience
  /\ UNCHANGED exp_mem
  /\ UNCHANGED non_rollout_vars

GatherReturn ==
  /\ pc = "gather"
  /\ steps_left = 0
  /\ pc' = "idle"
  /\ UNCHANGED <<exp_mem, steps_left, experience, iters>>
  /\ UNCHANGED non_rollout_vars

\* collect_experiences_calc_advantage, up to the call of the rollout
CollectStart ==
  /\ pc = "idle"
  /\ iters < MaxIters
  /\ iters' = iters + 1
  /\ IF exp_mem.current_idx # 0
     THEN /\ experience' = [NoExperience EXCEPT !.status = "AssertionError",
                                                !.start_idx = exp_mem.current_idx]
          /\ UNCHANGED <<exp_mem, pc, steps_left>>
     ELSE /\ exp_mem' = last_becomes_first(exp_mem)
          /\ experience' = [NoExperience EXCEPT !.status = "running",
                              !.start_idx = exp_mem.current_idx,
                              !.carried = exp_mem.buffer[Capacity]]
          /\ pc' = "collect"
          /\ steps_left' = num_rollout_steps
  /\ UNCHANGED non_rollout_vars

Column(buf, part, fld) == [t \in DOMAIN buf |-> buf[t][part][fld]]
AllButLast(q) == SubSeq(q, 1, Len(q) - 1)

\* collect_experiences_calc_advantage, after the rollout
CollectReturn ==
  /\ pc = "collect"
  /\ steps_left = 0
  /\ pc' = "idle"
  /\ LET buf == exp_mem.buffer
         rewards == Column(buf, "env", "reward")
         values == Column(buf, "agent", "v_values")
         dones == Column(buf, "env", "done")
         gae == generalized_advantage_estimation(
                  rewards, values, dones, num_rollout_steps, discount, gae_lambda)
         vals == AllButLast(values)
     IN  experience' =
           IF exp_mem.last_written_idx # num_rollout_steps \/ gae.status # "ok"
           THEN [experience EXCEPT !.status = "AssertionError"]
           ELSE [experience EXCEPT
                   !.status = "ok",
                   !.env_steps =
                      [observation |-> flatten_array(AllButLast(Column(buf, "env", "observation"))),
                       reward |-> flatten_array(AllButLast(rewards)),
                       done |-> flatten_array(AllButLast(dones))],
                   !.agent_steps =
                      [actions |-> flatten_array(AllButLast(Column(buf, "agent", "actions"))),
                       v_values |-> flatten_array(vals)],
                   !.advantages = flatten_array(gae.adv),
                   !.returnn = flatten_array(
                                 [t \in DOMAIN vals |-> VAdd(VInt(vals[t]), gae.adv[t])])]
  /\ UNCHANGED <<exp_mem, steps_left, iters>>
  /\ UNCHANGED non_rollout_vars

-----------------------------------------------------------------------------
(* Specifications: one per component, the other components at rest.        *)

PolicyIdle ==
  /\ epsilon = <<19, 20>> /\ epsilon_min = <<1, 20>> /\ epsilon_decay = <<9, 10>>
  /\ is_training = FALSE /\ agent = 0 /\ agent_mode = "train" /\ optimizer = 0
  /\ losses = <<>> /\ files = [p \in Paths |-> NoFile] /\ ret = NoRet
  /\ eps0 = <<19, 20>> /\ trained = 0
CodecIdle == codec_in = <<>> /\ codec_out = [enc |-> NoEnc, dec |-> NoDec]
StencIdle == st = EmptyState /\ st_hist = <<>>
ReturnsIdle == batch_in = <<>> /\ loss_out = <<>>
RolloutIdle == RolloutInit
GaeIdle ==
  /\ gae_in = [rewards |-> <<>>, values |-> <<>>, dones |-> <<>>, num_rollout_steps |-> 0]
  /\ gae_out = [status |-> "none", adv |-> <<>>]
FlatIdle == flat_in = <<>> /\ flat_out = <<>>

Init ==
  /\ PolicyInit /\ CodecIdle /\ StencIdle /\ ReturnsIdle /\ RolloutIdle
  /\ GaeIdle /\ FlatIdle
Next == train \/ next_action \/ save \/ load
Spec == Init /\ [][Next]_vars

InitCodec ==
  /\ PolicyIdle /\ CodecInit /\ StencIdle /\ ReturnsIdle /\ RolloutIdle
  /\ GaeIdle /\ FlatIdle
NextCodec == CallEncodeAction \/ CallDecodeAction
SpecCodec == InitCodec /\ [][NextCodec]_vars

InitStateEnc ==
  /\ PolicyIdle /\ CodecIdle /\ StencInit /\ ReturnsIdle /\ RolloutIdle
  /\ GaeIdle /\ FlatIdle
NextStateEnc == CallEncodeState
SpecStateEnc == InitStateEnc /\ [][NextStateEnc]_vars

InitReturns ==
  /\ PolicyIdle /\ CodecIdle /\ StencIdle /\ ReturnsInit /\ RolloutIdle
  /\ GaeIdle /\ FlatIdle
NextReturns == CalcBatchLosses
SpecReturns == InitReturns /\ [][NextReturns]_vars

InitRollout ==
  /\ PolicyIdle /\ CodecIdle /\ StencIdle /\ ReturnsIdle /\ RolloutInit
  /\ GaeIdle /\ FlatIdle
NextRollout ==
  GatherStart \/ RolloutStep \/ GatherReturn \/ CollectStart \/ CollectReturn
SpecRollout == InitRollout /\ [][NextRollout]_vars

InitGae ==
  /\ PolicyIdle /\ CodecIdle /\ StencIdle /\ ReturnsIdle /\ RolloutIdle
  /\ GaeInit /\ FlatIdle
NextGae == CallGae
SpecGae == InitGae /\ [][NextGae]_vars

InitFlatten ==
  /\ PolicyIdle /\ CodecIdle /\ StencIdle /\ ReturnsIdle /\ RolloutIdle
  /\ GaeIdle /\ FlatInit
NextFlatten == CallFlatten
SpecFlatten == InitFlatten /\ [][NextFlatten]_vars

-----------------------------------------------------------------------------
(* Properties.                                                             *)

\* C1: after k completed train() calls epsilon equals
\* max(epsilon_min, eps0 * epsilon_decay^k), and epsilon is never below
\* epsilon_min.
EpsilonClosedForm ==
  /\ epsilon = RMax(epsilon_min, RMul(eps0, RPow(epsilon_decay, trained)))
  /\ ~RLess(epsilon, epsilon_min)

\* A decay step has taken epsilon from above the floor to below it.
EpsilonBelowFloor ==
  /\ trained > 0
  /\ RLess(epsilon_min, eps0)
  /\ RLess(epsilon, epsilon_min)

\* C2: decode_action applied to encode_action's result on a single valid act
\* returns normally, with one act of the same intent and the same slot set.
DecodeInvertsEncode ==
  (Len(codec_in) = 1 /\ codec_out.dec.status # "none") =>
    /\ codec_out.dec.status = "ok"
    /\ Len(codec_out.dec.acts) = 1
    /\ codec_out.dec.acts[1].intent = codec_in[1].intent
    /\ Range(codec_out.dec.acts[1].params) = Range(codec_in[1].params)

\* decode_action was called on the encoding of a single act with slots.
DecodeCalledOnEncoding ==
  /\ Len(codec_in) = 1
  /\ codec_in[1].params # <<>>
  /\ codec_out.enc.status = "ok"
  /\ codec_out.dec.status # "none"

\* C4: load(path) after save(path) completes without error and leaves the
\* network with the saved parameters; load on a path that is no file leaves
\* the network as it was and raises nothing; optimizer state and epsilon
\* are as before the load.
SaveLoadRoundTrip ==
  ret.op = "load" =>
    /\ ret.status = "ok"
    /\ \A p \in Paths : ret.existed => agent = files[p]
    /\ ~ret.existed => agent = ret.before

\* load was called on a path that save had written.
LoadedSavedFile ==
  /\ ret.op = "load"
  /\ ret.existed
  /\ \E p \in Paths : files[p] # NoFile

\* The encoding enc stands for act: its intent index names act's intent in
\* the fitted classes, its slot vector marks exactly act's slots.
EncodingOf(enc, act) ==
  /\ enc.status = "ok"
  /\ intent_classes[enc.intent + 1] = act.intent
  /\ Len(enc.slots) = Len(slot_classes)
  /\ {slot_classes[i] : i \in {j \in DOMAIN enc.slots : enc.slots[j] = 1}}
       = Range(act.params)
  /\ \A i \in DOMAIN enc.slots : enc.slots[i] \in {0, 1}

\* C5: encode_action on a list of acts: a list of several acts holding an
\* offer is cut to its first act and that act is encoded; a list of one act
\* is encoded as that act; a list that after the cut does not hold exactly
\* one act fails with an AssertionError and yields no encoding.
EncodeActionContract ==
  codec_out.enc.status # "none" =>
    LET offer == \E i \in DOMAIN codec_in : codec_in[i].intent = "offer"
    IN  IF Len(codec_in) = 1 \/ (Len(codec_in) > 1 /\ offer)
        THEN EncodingOf(codec_out.enc, codec_in[1])
        ELSE codec_out.enc = [status |-> "AssertionError", intent |-> -1,
                              slots |-> <<>>]

\* Two different acts, the second an offer, were encoded as the first.
EncodedTruncatedList ==
  /\ Len(codec_in) = 2
  /\ codec_in[1].intent = "request"
  /\ codec_in[1].params = <<"price", "area">>
  /\ codec_in[2].intent = "offer"
  /\ codec_out.enc.status = "ok"

\* C8: for every dialogue of the batch the returns satisfy R_n = r_n and
\* R_t = r_t + gamma * R_{t+1}, stand in turn order (the loss of turn t is
\* -log_prob_t * R_t), and are computed from that dialogue's rewards alone.
ReturnsPerDialogue ==
  loss_out # <<>> =>
    /\ Len(loss_out) = Len(batch_in)
    /\ \A d \in DOMAIN batch_in :
         LET dlg == batch_in[d]
             out == loss_out[d]
             n == Len(dlg)
         IN  /\ out.status = "ok"
             /\ Len(out.returns) = n
             /\ Len(out.losses) = n
             /\ out.returns[n] = RInt(dlg[n].reward)
             /\ \A t \in 1..(n - 1) :
                  out.returns[t] = RAdd(RInt(dlg[t].reward),
                                        RMul(<<99, 100>>, out.returns[t + 1]))
             /\ \A t \in 1..n :
                  out.losses[t] = RMul(RInt(-out.lps[t]), out.returns[t])

\* A batch of two dialogues, the first of three turns with different
\* rewards and different log-probabilities, has been processed.
ReturnsOfTwoDialogues ==
  /\ loss_out # <<>>
  /\ Len(batch_in) = 2
  /\ Len(batch_in[1]) = 3
  /\ batch_in[1][1].reward # batch_in[1][3].reward
  /\ batch_in[2][1].reward # batch_in[1][1].reward
  /\ loss_out[1].lps[1] # loss_out[1].lps[3]

\* C9: generalized_advantage_estimation fails with an AssertionError unless
\* len(values) = 1 + H; otherwise, for every i in 0..H-1,
\* A_i = delta_i + gamma*lambda*A_{i+1}*(1 - done_{i+1}) with
\* delta_i = r_{i+1} + gamma*V_{i+1}*(1 - done_{i+1}) - V_i and A_H = 0;
\* with H = 1 and no done flag A_0 = r_1 + gamma*V_1 - V_0.
GaeRecursion ==
  gae_out.status # "none" =>
    LET H == gae_in.num_rollout_steps
        r == gae_in.rewards
        V == gae_in.values
        done == gae_in.dones
        A == gae_out.adv
    IN  IF Len(V) # 1 + H
        THEN gae_out = [status |-> "AssertionError", adv |-> <<>>]
        ELSE /\ gae_out.status = "ok"
             /\ Len(A) = H
             /\ \A i \in 0..(H - 1), e \in Envs :
                  LET keep == RInt(1 - done[i + 2][e])
                      delta == RSub(RAdd(RInt(r[i + 2][e]),
                                         RMul(RMul(<<99, 100>>, RInt(V[i + 2][e])), keep)),
                                    RInt(V[i + 1][e]))
                      later == IF i = H - 1 THEN RInt(0) ELSE A[i + 2][e]
                  IN  A[i + 1][e] =
                        RAdd(delta, RMul(RMul(RMul(<<99, 100>>, <<19, 20>>), later), keep))
             /\ (H = 1 /\ \A t \in DOMAIN done, e \in Envs : done[t][e] = 0) =>
                  \A e \in Envs :
                    A[1][e] = RSub(RAdd(RInt(r[2][e]), RMul(<<99, 100>>, RInt(V[2][e]))),
                                   RInt(V[1][e]))

\* Advantages of a two-step rollout whose first step ended an episode.
GaeCutByDone ==
  /\ gae_out.status = "ok"
  /\ gae_in.num_rollout_steps = 2
  /\ gae_in.dones[2][1] = 1
  /\ gae_in.rewards[3][1] = 1
  /\ gae_in.values[2][1] = 1

\* C10: flatten_array puts element (t, e) of a (T, E) array at flat index
\* e*T + t, and flatten_parallel_rollout does so for every leaf of a nested
\* dict, so the leaves' entries for the same (t, e) share their flat index.
FlattenIndex ==
  flat_out # <<>> =>
    LET a == flat_in.env_steps.v.reward.v
        T == Len(a)
        E == Len(a[1])
        fr == flat_out.env_steps.v.reward.v
        fa == flat_out.advantages.v
    IN  /\ DOMAIN flat_out = DOMAIN flat_in
        /\ flat_out.advantages.leaf /\ ~flat_out.env_steps.leaf
        /\ flat_out.env_steps.v.reward.leaf
        /\ Len(fr) = T * E
        /\ Len(fa) = T * E
        /\ \A t \in 0..(T - 1), e \in 0..(E - 1) :
             /\ fr[e * T + t + 1] = a[t + 1][e + 1]
             /\ fa[e * T + t + 1] = <<t + 1, e + 1>>

\* A 2 x 2 array with different off-diagonal cells has been flattened.
FlattenedSquare ==
  /\ flat_out # <<>>
  /\ Len(flat_in.env_steps.v.reward.v) = 2
  /\ Len(flat_in.env_steps.v.reward.v[1]) = 2
  /\ flat_in.env_steps.v.reward.v[1][2] # flat_in.env_steps.v.reward.v[2][1]

\* The states that agree with s on every field the encoding may read.
ExcludedVariants(s) ==
  {[f \in DOMAIN s |-> IF f \in ExcludedFields THEN x[f] ELSE s[f]] :
     x \in [ExcludedFields -> {0, 1}]}

\* C6: encoding the same state again yields the same token ids; states that
\* differ only in the excluded fields yield the same ids; a token outside
\* the vocabulary is left out (no id stands for it, the unknown-token id is
\* never produced); the caller's state object is as it was before the call.
StateEncodingDeterministic ==
  /\ \A i \in DOMAIN st_hist :
       LET h == st_hist[i]
           toks == state_to_json(h.before).s
           known == SelectSeq(toks, LAMBDA t : t \in Range(itos))
       IN  /\ h.after = h.before
           /\ st = h.before
           /\ h.status = st_hist[1].status
           /\ h.ids = st_hist[1].ids
           /\ UnkId \notin Range(h.ids)
           /\ h.status = "ok" =>
                /\ Len(h.ids) = Len(known)
                /\ \A k \in DOMAIN known : itos[h.ids[k] + 1] = known[k]
  /\ st_hist # <<>> =>
       \A v \in ExcludedVariants(st) :
         \E r \in {encode_state(v)} :
           r.status = st_hist[1].status /\ r.ids = st_hist[1].ids

\* A state with a filled slot outside the vocabulary, a ratio that reads
\* 28 percent and acts of both sides has been encoded twice.
EncodedTwice ==
  /\ Len(st_hist) = 2
  /\ st_hist[2].status = "ok"
  /\ st.slots_filled["name"] = "v"
  /\ st.db_matches_ratio = 29
  /\ ~st.last_sys_acts.none
  /\ Len(st_hist[2].ids) < Len(state_to_json(st).s)

RolloutBufferContract ==
  LET H == num_rollout_steps
      written == exp_mem.last_written_idx
      chained(i) ==
        /\ exp_mem.buffer[i + 1].env.observation = exp_mem.buffer[i].agent.actions
        /\ exp_mem.buffer[i + 1].agent_saw = exp_mem.buffer[i + 1].env.observation
  IN  /\ Len(exp_mem.buffer) = H + 1
      /\ experience.status \in {"running", "ok"} => experience.start_idx = 0
      /\ (experience.start_idx # 0 /\ experience.start_idx # -1) =>
           experience.status = "AssertionError" /\ pc = "idle"
      /\ pc = "collect" =>
           /\ experience.status = "running"
           /\ written = H - steps_left
           /\ exp_mem.current_idx = (written + 1) % (H + 1)
           /\ exp_mem.buffer[1] = experience.carried
           /\ \A i \in 1..written : chained(i)
      /\ experience.status = "ok" =>
           /\ pc = "idle"
           /\ written = H
           /\ exp_mem.current_idx = 0
           /\ exp_mem.buffer[1] = experience.carried
           /\ \A i \in 1..H : chained(i)

\* A second iteration has ended: its slot 0 holds an entry gathered before,
\* and the agent's actions of the new entries differ.
SecondIterationDone ==
  /\ experience.status = "ok"
  /\ iters >= 2
  /\ experience.carried # InitialDatum
  /\ exp_mem.buffer[2].agent.actions # exp_mem.buffer[3].agent.actions

====
